---- MODULE Spec2Model ----
(***************************************************************************)
(* FROST threshold signatures of Frost-IAM (frost-crypto.js): key          *)
(* generation, commitments, signature shares, aggregation, verification;   *)
(* the AccessControlRegistry contract; the gateway's access requests.      *)
(*                                                                         *)
(* The class FrostSignature keeps no state of its own; the state of the    *)
(* model is the state of a caller that drives it the way the repository's  *)
(* scripts do (test-frost.js, end-to-end-test.js): the key share set, the  *)
(* commitments and signature shares collected so far, the last aggregated  *)
(* signature and the last verification result.                             *)
(*                                                                         *)
(* Scaling.  The code works on secp256k1 (y^2 = x^3 + 7 over a 256-bit     *)
(* field, group order n of 256 bits) with SHA-256 and 32 random bytes per  *)
(* draw.  The model keeps the curve equation and all of the arithmetic,    *)
(* on the curve y^2 = x^3 + 7 over F_13, whose group has prime order 7,    *)
(* with 3-bit digests and 3 random bits per draw (2^3 > 7, as 2^256 > n).  *)
(***************************************************************************)
EXTENDS Integers, Sequences, FiniteSets, TLC

VARIABLES
    keyShares,          \* result of the last generateKeyShares call
    coefficients,       \* the polynomial it drew (local of the call)
    message,            \* the message of the signing session
    commitments,        \* caller's array of generateCommitment results
    signatureShares,    \* caller's array of generateSignatureShare results
    nonceUses,          \* per commitment: how many signing calls took its nonce
    lastShare,          \* the last generateSignatureShare call and its result
    combinedSignature,  \* the last combineSignatureShares call and its result
    verification,       \* the last verifySignature call and its result
    roles,              \* AccessControl._roles: role -> accounts holding it
    paused,             \* Pausable._paused
    resourcePolicies,   \* AccessControlRegistry.resourcePolicies
    permissions,        \* AccessControlRegistry.permissions
    blockTimestamp,     \* block.timestamp of the block being executed
    lastCall,           \* the last transaction sent to the registry, its outcome
    policies,           \* FrostIAM._policies
    policyCounter,      \* FrostIAM._policyCounter
    lastPolicyCall,     \* the last transaction sent to FrostIAM, its outcome
    accessResponse      \* the gateway's last POST /access/request, its answer

frostVars == <<keyShares, coefficients, message, commitments, signatureShares,
               nonceUses, lastShare, combinedSignature, verification>>

registryVars == <<roles, paused, resourcePolicies, permissions,
                  blockTimestamp, lastCall>>

iamVars == <<policies, policyCounter, lastPolicyCall>>

vars == <<frostVars, registryVars, iamVars, accessResponse>>

-----------------------------------------------------------------------------
(* Bounds of the model                                                     *)

MaxN == 5           \* largest group size tried besides the over-limit one
MaxT == 3           \* largest threshold drawn with a polynomial
MaxDraw == 2        \* largest random scalar drawn inside a signing session
MaxTime == 5        \* last block time reached
MaxPolicies == 1    \* policies created in FrostIAM
MaxApprovers == 2   \* longest approvers array given to createPolicy

(* Limits and parameters of the program                                    *)

MaxParticipants == 50   \* the limit on the group size
SessionParticipants == 3    \* generateKeyShares(3, 2) of the test fixture
SessionThreshold == 2
Order == 7              \* ec.curve.n, the order of the group
FieldP == 13            \* ec.curve.p, the field of the coordinates
RandomBits == 3         \* randomBytes(32): bits per draw
DigestBits == 3         \* createHash('sha256'): bits per digest
PadLength == 64         \* padStart(64, '0')

-----------------------------------------------------------------------------
(* bn.js: hexadecimal strings and signed arithmetic                        *)

HexDigits == <<"0","1","2","3","4","5","6","7","8","9","a","b","c","d","e","f">>

IsHexDigit(c) == \E i \in 1..16 : HexDigits[i] = c

\* parseHex4Bits: a hex digit gives its value, any other character c gives
\* (c - 48) & 0xf, which is 13 for "-", 9 for "i", 14 for "n", 6 for "v"
DigitValue(c) ==
    IF IsHexDigit(c) THEN (CHOOSE i \in 1..16 : HexDigits[i] = c) - 1
    ELSE CASE c = "-" -> 13
           [] c = "i" -> 9
           [] c = "n" -> 14
           [] c = "v" -> 6

RECURSIVE UnsignedHex(_)
UnsignedHex(v) ==
    IF v < 16 THEN <<HexDigits[v + 1]>>
    ELSE UnsignedHex(v \div 16) \o <<HexDigits[(v % 16) + 1]>>

\* BN.prototype.toString('hex'): no padding, a leading "-" for negatives
ToHex(v) == IF v < 0 THEN <<"-">> \o UnsignedHex(-v) ELSE UnsignedHex(v)

RECURSIVE ParseDigits(_, _)
ParseDigits(s, acc) ==
    IF s = <<>> THEN acc
    ELSE ParseDigits(Tail(s), acc * 16 + DigitValue(Head(s)))

\* leading zeros add nothing to the number: they are skipped, the digits
\* from the first other character on are parsed
Significant(s) ==
    IF \A i \in 1..Len(s) : s[i] = "0" THEN <<>>
    ELSE LET first == CHOOSE i \in 1..Len(s) :
                         s[i] /= "0" /\ \A j \in 1..(i - 1) : s[j] = "0"
         IN  SubSeq(s, first, Len(s))

\* undefined where a string is expected: a message that is not a string
\* (update() throws a TypeError on it), a nonce or a property that is absent
NotAString == <<"undefined">>

\* new BN(str, 16): a leading "-" makes the number negative; the constructor
\* takes undefined as the number 0 (this._init(number || 0, ...))
FromHex(s) ==
    IF s = NotAString THEN 0
    ELSE IF s /= <<>> /\ Head(s) = "-"
         THEN -ParseDigits(Significant(Tail(s)), 0)
    ELSE ParseDigits(Significant(s), 0)

\* String.prototype.padStart(len, '0')
PadStart(s, len) ==
    IF Len(s) >= len THEN s ELSE [i \in 1..(len - Len(s)) |-> "0"] \o s

\* BN.prototype.mod: the result takes the sign of the dividend
BnMod(a, m) == IF a >= 0 THEN a % m ELSE -((-a) % m)

\* BN.prototype.umod: the result is in 0..m-1
BnUmod(a, m) == a % m

\* BN.prototype.invm: egcd(m).a.umod(m); egcd leaves a = 0 when this is 0 mod m
BnInvm(a, m) ==
    LET x == BnUmod(a, m)
    IN  IF x = 0 THEN 0 ELSE CHOOSE i \in 1..(m - 1) : (i * x) % m = 1

RECURSIVE Power(_, _)
Power(b, e) == IF e = 0 THEN 1 ELSE b * Power(b, e - 1)

-----------------------------------------------------------------------------
(* elliptic: the curve                                                     *)

Infinity == [inf |-> TRUE, x |-> 0, y |-> 0]

Affine(px, py) == [inf |-> FALSE, x |-> px, y |-> py]

\* ec.g, the base point
BasePoint == Affine(7, 5)

FieldInv(a) == CHOOSE i \in 1..(FieldP - 1) : (i * (a % FieldP)) % FieldP = 1

\* Point.prototype.add
PointAdd(P, Q) ==
    IF P.inf THEN Q
    ELSE IF Q.inf THEN P
    ELSE IF P.x = Q.x /\ (P.y + Q.y) % FieldP = 0 THEN Infinity
    ELSE LET l == IF P = Q
                  THEN (3 * P.x * P.x * FieldInv(2 * P.y)) % FieldP
                  ELSE ((Q.y - P.y) * FieldInv(Q.x - P.x)) % FieldP
             x3 == (l * l - P.x - Q.x) % FieldP
         IN  Affine(x3, (l * (P.x - x3) - P.y) % FieldP)

RECURSIVE PointMul(_, _)
\* Point.prototype.mul, for a scalar k >= 0
PointMul(P, k) == IF k = 0 THEN Infinity ELSE PointAdd(PointMul(P, k - 1), P)

\* the multiples of the base point, computed once
BaseMultiples == [k \in 0..(Order - 1) |-> PointMul(BasePoint, k)]

\* ec.g.mul(k) for k in 0..Order-1
BaseMul(k) == BaseMultiples[k]

\* { x: P.getX().toString('hex'), y: P.getY().toString('hex') }
PointToHex(P) == [x |-> ToHex(P.x), y |-> ToHex(P.y)]

-----------------------------------------------------------------------------
(* Results of a call: a returned value or a thrown error                   *)

NoError == [name |-> "none", need |-> 0, got |-> 0]

Returned(v) == [ok |-> TRUE, value |-> v, error |-> NoError]

Thrown(e) ==
    [ok |-> FALSE, value |-> <<>>, error |-> [name |-> e, need |-> 0, got |-> 0]]

NotCalled == Thrown("not called")

Called(result) == result.error.name /= "not called"

-----------------------------------------------------------------------------
(* _generateRandomPrivateKey                                               *)

\* randomBytes(32): every value of the width can come out
RandomBytes == 0..(Power(2, RandomBits) - 1)

\* the do/while condition: draw again while the value is >= the order
Redrawn(v) == v >= Order

\* the hex strings _generateRandomPrivateKey can return
RandomPrivateKeys == {ToHex(v) : v \in {w \in RandomBytes : ~Redrawn(w)}}

-----------------------------------------------------------------------------
(* generateKeyShares                                                       *)

RECURSIVE PolyEval(_, _, _)
\* the inner loop: share = (share + (a_j * x^j mod n)) mod n, j = 0..t-1
PolyEval(coeffs, x, j) ==
    IF j = 0 THEN 0
    ELSE BnMod(PolyEval(coeffs, x, j - 1)
               + BnMod(coeffs[j] * Power(x, j - 1), Order), Order)

\* the polynomial evaluated without its constant term
ShareValueWithoutConstant(coeffs, i) ==
    PolyEval([coeffs EXCEPT ![1] = 0], i, Len(coeffs))

ShareValue(coeffs, i) == PolyEval(coeffs, i, Len(coeffs))

\* lines 26-63: the shares and public shares of participants 1..last, the
\* group public key, threshold and total
BuildKeyShareSet(n, t, coeffs, last) ==
    \* getX() of the point at infinity reads a null coordinate
    IF \E i \in 1..last : BaseMul(ShareValue(coeffs, i)).inf
    THEN Thrown("TypeError")
    ELSE IF BaseMul(coeffs[1]).inf THEN Thrown("TypeError")
    ELSE Returned([
        shares |-> [i \in 1..last |->
            [index |-> i, value |-> ToHex(ShareValue(coeffs, i))]],
        publicShares |-> [i \in 1..last |->
            [index |-> i,
             x |-> PointToHex(BaseMul(ShareValue(coeffs, i))).x,
             y |-> PointToHex(BaseMul(ShareValue(coeffs, i))).y]],
        groupPublicKey |-> PointToHex(BaseMul(coeffs[1])),
        threshold |-> t,
        total |-> n])

\* a participant loop that stops one short: for (i = 1; i < n; i++)
GenerateKeySharesOneShort(n, t, draws) ==
    IF t > n THEN Thrown("Threshold cannot exceed total participants")
    ELSE IF t < 1 THEN Thrown("Threshold must be at least 1")
    ELSE BuildKeyShareSet(n, t, [j \in 1..t |-> FromHex(draws[j])], n - 1)

\* draws: the t strings that _generateRandomPrivateKey returned
GenerateKeyShares(n, t, draws) ==
    IF t > n THEN Thrown("Threshold cannot exceed total participants")
    ELSE IF t < 1 THEN Thrown("Threshold must be at least 1")
    ELSE BuildKeyShareSet(n, t, [j \in 1..t |-> FromHex(draws[j])], n)

-----------------------------------------------------------------------------
(* _calculateLagrangeCoefficients                                          *)

RECURSIVE LagrangeProduct(_, _, _)
\* the inner loop over j for position i, j = 1..upto
LagrangeProduct(indices, i, upto) ==
    IF upto = 0 THEN 1
    ELSE LET coeff == LagrangeProduct(indices, i, upto - 1)
         IN  IF upto = i THEN coeff
             ELSE LET num == BnMod(0 - indices[upto], Order)
                      denom == BnMod(indices[i] - indices[upto], Order)
                      denomInv == BnInvm(denom, Order)
                  IN  BnMod(coeff * num * denomInv, Order)

RECURSIVE LagrangeProductNoNegate(_, _, _)
\* the same loop with the numerator xj in place of -xj
LagrangeProductNoNegate(indices, i, upto) ==
    IF upto = 0 THEN 1
    ELSE LET coeff == LagrangeProductNoNegate(indices, i, upto - 1)
         IN  IF upto = i THEN coeff
             ELSE LET num == BnMod(indices[upto], Order)
                      denom == BnMod(indices[i] - indices[upto], Order)
                      denomInv == BnInvm(denom, Order)
                  IN  BnMod(coeff * num * denomInv, Order)

CalculateLagrangeCoefficientsNoNegate(indices) ==
    [i \in 1..Len(indices) |->
        ToHex(LagrangeProductNoNegate(indices, i, Len(indices)))]

CalculateLagrangeCoefficients(indices) ==
    [i \in 1..Len(indices) |-> ToHex(LagrangeProduct(indices, i, Len(indices)))]

-----------------------------------------------------------------------------
(* _hashMessage, _calculateBindingFactor                                   *)

RECURSIVE Absorb(_, _)
\* a fixed function of the characters, sensitive to their order
Absorb(chars, h) ==
    IF chars = <<>> THEN h
    ELSE Absorb(Tail(chars),
                (3 * h + DigitValue(Head(chars)) + 1) % Power(2, DigestBits))

\* createHash('sha256').update(chars).digest('hex')
Sha256Hex(chars) == ToHex(Absorb(chars, 1))

HashMessage(m) == Sha256Hex(m)

RECURSIVE CommitmentString(_)
\* commitmentString += commitment.x + commitment.y, in the order of the list
CommitmentString(commitmentList) ==
    IF commitmentList = <<>> THEN <<>>
    ELSE Head(commitmentList).x \o Head(commitmentList).y
         \o CommitmentString(Tail(commitmentList))

CalculateBindingFactor(messageHash, commitmentList) ==
    Sha256Hex(messageHash \o CommitmentString(commitmentList))

-----------------------------------------------------------------------------
(* generateCommitment                                                      *)

\* draw: the string that _generateRandomPrivateKey returned
GenerateCommitment(draw) ==
    LET nonce == FromHex(draw)
        commitment == BaseMul(nonce)
    IN  \* getX() of the point at infinity reads a null coordinate
        IF commitment.inf THEN Thrown("TypeError")
        ELSE Returned([nonce |-> ToHex(nonce),
                       commitment |-> PointToHex(commitment)])

-----------------------------------------------------------------------------
(* generateSignatureShare                                                  *)

\* the share taken without the binding factor: nonce + privateKeyShare
GenerateSignatureShareUnbound(m, privateShare, nonce, commitmentList) ==
    IF m = NotAString THEN Thrown("TypeError")
    ELSE Returned([index |-> privateShare.index,
                   value |-> ToHex(BnMod(FromHex(nonce)
                                + BnMod(FromHex(privateShare.value), Order),
                                Order))])

\* the share taken with the hash of the message as c, whatever the
\* commitments are
GenerateSignatureShareOfMessage(m, privateShare, nonce, commitmentList) ==
    IF m = NotAString THEN Thrown("TypeError")
    ELSE Returned([index |-> privateShare.index,
                   value |-> ToHex(BnMod(FromHex(nonce)
                                + BnMod(FromHex(HashMessage(m))
                                        * FromHex(privateShare.value), Order),
                                Order))])

GenerateSignatureShare(m, privateShare, nonce, commitmentList) ==
    IF m = NotAString THEN Thrown("TypeError")
    ELSE
    LET messageHash == HashMessage(m)
        privateKeyShare == FromHex(privateShare.value)
        bindingFactor == CalculateBindingFactor(messageHash, commitmentList)
        nonceBN == FromHex(nonce)
        c == FromHex(bindingFactor)
        signatureShare ==
            BnMod(nonceBN + BnMod(c * privateKeyShare, Order), Order)
    IN  Returned([index |-> privateShare.index,
                  value |-> ToHex(signatureShare)])

-----------------------------------------------------------------------------
(* combineSignatureShares                                                  *)

ThrownNotEnough(threshold, got) ==
    [ok |-> FALSE, value |-> <<>>,
     error |-> [name |-> "Not enough signature shares",
                need |-> threshold, got |-> got]]

RECURSIVE CombineLoop(_, _, _)
\* combined = (combined + (share_i * lagrange_i mod n)) mod n, i = 1..upto
CombineLoop(shares, lagrangeCoefficients, upto) ==
    IF upto = 0 THEN 0
    ELSE LET share == FromHex(shares[upto].value)
             lagrange == FromHex(lagrangeCoefficients[upto])
         IN  BnMod(CombineLoop(shares, lagrangeCoefficients, upto - 1)
                   + BnMod(share * lagrange, Order), Order)

\* lines 113-143, after the check of the number of shares
CombineChecked(m, shares, commitmentList, sDraw) ==
    IF m = NotAString THEN Thrown("TypeError")
    ELSE
    LET messageHash == HashMessage(m)
        bindingFactor == CalculateBindingFactor(messageHash, commitmentList)
        indices == [i \in 1..Len(shares) |-> shares[i].index]
        lagrangeCoefficients == CalculateLagrangeCoefficients(indices)
        combined == CombineLoop(shares, lagrangeCoefficients, Len(shares))
    IN  Returned([r |-> PadStart(ToHex(combined), PadLength),
                  s |-> PadStart(ToHex(FromHex(sDraw)), PadLength),
                  v |-> 27,
                  combined |-> ToHex(combined)])

\* a check that lets one share too few through
CombineSignatureSharesOffByOne(m, shares, commitmentList, threshold, sDraw) ==
    IF Len(shares) < threshold - 1
    THEN ThrownNotEnough(threshold, Len(shares))
    ELSE CombineChecked(m, shares, commitmentList, sDraw)

\* sDraw: the string that _generateRandomPrivateKey returned for s
CombineSignatureShares(m, shares, commitmentList, threshold, sDraw) ==
    IF Len(shares) < threshold
    THEN ThrownNotEnough(threshold, Len(shares))
    ELSE CombineChecked(m, shares, commitmentList, sDraw)

-----------------------------------------------------------------------------
(* verifySignature                                                         *)

Undefined == [undefined |-> TRUE]

\* EC.prototype._truncateToN: the digest is as wide as the order, so it is
\* only brought below it
TruncateToN(msg) == IF msg >= Order THEN msg - Order ELSE msg

\* EC.prototype.verify(msg, {r, s}, key), key a point taken as given
EcVerify(msg, r, s, key) ==
    IF r < 1 \/ r >= Order THEN FALSE
    ELSE IF s < 1 \/ s >= Order THEN FALSE
    ELSE LET sinv == BnInvm(s, Order)
             u1 == BnUmod(sinv * TruncateToN(msg), Order)
             u2 == BnUmod(sinv * r, Order)
             p == PointAdd(PointMul(BasePoint, u1), PointMul(key, u2))
         IN  IF p.inf THEN FALSE ELSE BnUmod(p.x, Order) = r

\* the try block; every exception ends in the catch, which returns false
VerifySignature(m, signature, groupPublicKey) ==
    IF m = NotAString THEN Returned(FALSE)
    ELSE IF signature = Undefined THEN Returned(FALSE)
    ELSE IF groupPublicKey = Undefined THEN Returned(FALSE)
    ELSE LET key == Affine(FromHex(groupPublicKey.x), FromHex(groupPublicKey.y))
         IN  Returned(EcVerify(FromHex(HashMessage(m)), FromHex(signature.r),
                               FromHex(signature.s), key))

-----------------------------------------------------------------------------
(* AccessControlRegistry.sol                                               *)
(*                                                                         *)
(* The contract inherits OpenZeppelin's AccessControl and Pausable (v4,    *)
(* contracts/security/Pausable.sol): onlyRole(role) reverts unless the     *)
(* sender holds the role, every role's admin role is DEFAULT_ADMIN_ROLE,   *)
(* whenNotPaused reverts with "Pausable: paused" and whenPaused with       *)
(* "Pausable: not paused".  Modifiers run in the order they are written.   *)
(* A reverted transaction changes no storage.                              *)
(*                                                                         *)
(* Scaling.  The uint32 fields of a policy are kept 2 bits wide, and the   *)
(* block times run past 2^2 as real block times run past 2^32.             *)

DEFAULT_ADMIN_ROLE == "DEFAULT_ADMIN_ROLE"
ADMIN_ROLE == "ADMIN_ROLE"
OPERATOR_ROLE == "OPERATOR_ROLE"

\* the signers of the test fixture that send transactions; the operator
\* holds no role until one is granted to it
Accounts == {"admin", "operator"}

\* the names of resources and principals, short enough for one bytes32
ResourceNames == {"bucket", "vm"}

PrincipalNames == {"alice", "bob"}

\* ethers.encodeBytes32String / formatBytes32String: the bytes of the name,
\* zero padded to 32 bytes
EncodeBytes32String(name) == [bytes32 |-> name]

ResourceIds == {EncodeBytes32String(name) : name \in ResourceNames}

PrincipalIds == {EncodeBytes32String(name) : name \in PrincipalNames}

\* where a call has no such argument
NoId == [bytes32 |-> ""]

\* uint8 cloudProvider: 1=AWS, 2=Azure
CloudProviders == {1, 2}

Uint32Bits == 2

\* uint32(x): the explicit conversion keeps the low bits
Uint32(x) == x % Power(2, Uint32Bits)

\* the value of a mapping entry that was never written
ZeroPolicy ==
    [created |-> 0, updated |-> 0, expiryTime |-> 0, cloudProvider |-> 0,
     requiresFrostSig |-> FALSE]

\* AccessControl.hasRole
HasRole(role, account) == account \in roles[role]

\* AccessControl._checkRole: "AccessControl: account ... is missing role ..."
MissingRole == "AccessControl: missing role"

NoRevert == "none"

Call(fn, caller, resourceId, principalId, role, account, error) ==
    [fn |-> fn, caller |-> caller, resourceId |-> resourceId,
     principalId |-> principalId, role |-> role, account |-> account,
     error |-> error]

\* constructor(adminAddress, frostMultiSigAddress), sent by the deployer
RegistryDeployed ==
    /\ roles = [r \in {DEFAULT_ADMIN_ROLE, ADMIN_ROLE, OPERATOR_ROLE} |->
                   IF r = OPERATOR_ROLE THEN {} ELSE {"admin"}]
    /\ paused = FALSE
    /\ resourcePolicies = [r \in ResourceIds |-> ZeroPolicy]
    /\ permissions = [r \in ResourceIds |-> [p \in PrincipalIds |-> FALSE]]
    /\ blockTimestamp = 1
    /\ lastCall = Call("constructor", "admin", NoId, NoId, "", "", NoRevert)

\* a transaction that reverts with reason error, or runs its body
Transaction(call, body) ==
    /\ lastCall' = call
    /\ IF call.error /= NoRevert
       THEN UNCHANGED <<roles, paused, resourcePolicies, permissions>>
       ELSE body
    /\ UNCHANGED <<blockTimestamp, frostVars, iamVars, accessResponse>>

\* AccessControl.grantRole(role, account): onlyRole(getRoleAdmin(role))
GrantRole(caller, role, account) ==
    LET error == IF ~HasRole(DEFAULT_ADMIN_ROLE, caller) THEN MissingRole
                 ELSE NoRevert
    IN  Transaction(Call("grantRole", caller, NoId, NoId, role, account, error),
            /\ roles' = [roles EXCEPT ![role] = @ \cup {account}]
            /\ UNCHANGED <<paused, resourcePolicies, permissions>>)

\* AccessControl.revokeRole(role, account): onlyRole(getRoleAdmin(role))
RevokeRole(caller, role, account) ==
    LET error == IF ~HasRole(DEFAULT_ADMIN_ROLE, caller) THEN MissingRole
                 ELSE NoRevert
    IN  Transaction(Call("revokeRole", caller, NoId, NoId, role, account, error),
            /\ roles' = [roles EXCEPT ![role] = @ \ {account}]
            /\ UNCHANGED <<paused, resourcePolicies, permissions>>)

\* createResourcePolicy gated by OPERATOR_ROLE
CreateResourcePolicyByOperator(caller, resourceId, cloudProvider, expiryTime, requiresFrostSig) ==
    LET error ==
            IF ~HasRole(OPERATOR_ROLE, caller) THEN MissingRole
            ELSE IF resourcePolicies[resourceId].created /= 0
                 THEN "Policy already exists"
            ELSE NoRevert
    IN  Transaction(
            Call("createResourcePolicy", caller, resourceId, NoId, "", "",
                 error),
            /\ resourcePolicies' = [resourcePolicies EXCEPT ![resourceId] =
                   [created |-> Uint32(blockTimestamp),
                    updated |-> Uint32(blockTimestamp),
                    expiryTime |-> expiryTime,
                    cloudProvider |-> cloudProvider,
                    requiresFrostSig |-> requiresFrostSig]]
            /\ UNCHANGED <<roles, paused, permissions>>)

CreateResourcePolicy(caller, resourceId, cloudProvider, expiryTime, requiresFrostSig) ==
    LET error ==
            IF ~HasRole(ADMIN_ROLE, caller) THEN MissingRole
            ELSE IF resourcePolicies[resourceId].created /= 0
                 THEN "Policy already exists"
            ELSE NoRevert
    IN  Transaction(
            Call("createResourcePolicy", caller, resourceId, NoId, "", "", error),
            /\ resourcePolicies' = [resourcePolicies EXCEPT ![resourceId] =
                   [created |-> Uint32(blockTimestamp),
                    updated |-> Uint32(blockTimestamp),
                    expiryTime |-> expiryTime,
                    cloudProvider |-> cloudProvider,
                    requiresFrostSig |-> requiresFrostSig]]
            /\ UNCHANGED <<roles, paused, permissions>>)

\* grantPermission without the expiry check
GrantPermissionUnexpiring(caller, resourceId, principalId) ==
    LET policy == resourcePolicies[resourceId]
        error ==
            IF ~HasRole(OPERATOR_ROLE, caller) THEN MissingRole
            ELSE IF paused THEN "Pausable: paused"
            ELSE IF ~(policy.created > 0) THEN "Policy doesn't exist"
            ELSE NoRevert
    IN  Transaction(
            Call("grantPermission", caller, resourceId, principalId, "", "",
                 error),
            /\ permissions' =
                   [permissions EXCEPT ![resourceId][principalId] = TRUE]
            /\ resourcePolicies' = [resourcePolicies EXCEPT
                   ![resourceId].updated = Uint32(blockTimestamp)]
            /\ UNCHANGED <<roles, paused>>)

\* grantPermission without whenNotPaused
GrantPermissionWhilePaused(caller, resourceId, principalId) ==
    LET policy == resourcePolicies[resourceId]
        error ==
            IF ~HasRole(OPERATOR_ROLE, caller) THEN MissingRole
            ELSE IF ~(policy.created > 0) THEN "Policy doesn't exist"
            ELSE IF policy.expiryTime > 0
                    /\ ~(blockTimestamp < policy.expiryTime)
                 THEN "Policy expired"
            ELSE NoRevert
    IN  Transaction(
            Call("grantPermission", caller, resourceId, principalId, "", "",
                 error),
            /\ permissions' =
                   [permissions EXCEPT ![resourceId][principalId] = TRUE]
            /\ resourcePolicies' = [resourcePolicies EXCEPT
                   ![resourceId].updated = Uint32(blockTimestamp)]
            /\ UNCHANGED <<roles, paused>>)

GrantPermission(caller, resourceId, principalId) ==
    LET policy == resourcePolicies[resourceId]
        error ==
            IF ~HasRole(OPERATOR_ROLE, caller) THEN MissingRole
            ELSE IF paused THEN "Pausable: paused"
            ELSE IF ~(policy.created > 0) THEN "Policy doesn't exist"
            ELSE IF policy.expiryTime > 0
                    /\ ~(blockTimestamp < policy.expiryTime)
                 THEN "Policy expired"
            ELSE NoRevert
    IN  Transaction(
            Call("grantPermission", caller, resourceId, principalId, "", "",
                 error),
            /\ permissions' =
                   [permissions EXCEPT ![resourceId][principalId] = TRUE]
            /\ resourcePolicies' = [resourcePolicies EXCEPT
                   ![resourceId].updated = Uint32(blockTimestamp)]
            /\ UNCHANGED <<roles, paused>>)

\* revokePermission clearing the permissions of every principal
RevokePermissionOfAll(caller, resourceId, principalId) ==
    LET error ==
            IF ~HasRole(OPERATOR_ROLE, caller) THEN MissingRole
            ELSE IF ~(resourcePolicies[resourceId].created > 0)
                 THEN "Policy doesn't exist"
            ELSE NoRevert
    IN  Transaction(
            Call("revokePermission", caller, resourceId, principalId, "", "",
                 error),
            /\ permissions' = [permissions EXCEPT
                   ![resourceId] = [p \in PrincipalIds |-> FALSE]]
            /\ resourcePolicies' = [resourcePolicies EXCEPT
                   ![resourceId].updated = Uint32(blockTimestamp)]
            /\ UNCHANGED <<roles, paused>>)

RevokePermission(caller, resourceId, principalId) ==
    LET error ==
            IF ~HasRole(OPERATOR_ROLE, caller) THEN MissingRole
            ELSE IF ~(resourcePolicies[resourceId].created > 0)
                 THEN "Policy doesn't exist"
            ELSE NoRevert
    IN  Transaction(
            Call("revokePermission", caller, resourceId, principalId, "", "",
                 error),
            /\ permissions' =
                   [permissions EXCEPT ![resourceId][principalId] = FALSE]
            /\ resourcePolicies' = [resourcePolicies EXCEPT
                   ![resourceId].updated = Uint32(blockTimestamp)]
            /\ UNCHANGED <<roles, paused>>)

\* the view function, read at the current block
HasPermission(resourceId, principalId) ==
    IF resourcePolicies[resourceId].created = 0 THEN FALSE
    ELSE IF resourcePolicies[resourceId].expiryTime > 0
            /\ blockTimestamp >= resourcePolicies[resourceId].expiryTime
         THEN FALSE
    ELSE permissions[resourceId][principalId]

Pause(caller) ==
    LET error == IF ~HasRole(ADMIN_ROLE, caller) THEN MissingRole
                 ELSE IF paused THEN "Pausable: paused"
                 ELSE NoRevert
    IN  Transaction(Call("pause", caller, NoId, NoId, "", "", error),
            /\ paused' = TRUE
            /\ UNCHANGED <<roles, resourcePolicies, permissions>>)

Unpause(caller) ==
    LET error == IF ~HasRole(ADMIN_ROLE, caller) THEN MissingRole
                 ELSE IF ~paused THEN "Pausable: not paused"
                 ELSE NoRevert
    IN  Transaction(Call("unpause", caller, NoId, NoId, "", "", error),
            /\ paused' = FALSE
            /\ UNCHANGED <<roles, resourcePolicies, permissions>>)

\* the next block is mined, one second later
Mine ==
    /\ blockTimestamp < MaxTime
    /\ blockTimestamp' = blockTimestamp + 1
    /\ UNCHANGED <<roles, paused, resourcePolicies, permissions, lastCall,
                   frostVars, iamVars, accessResponse>>

-----------------------------------------------------------------------------
(* FrostIAM.sol                                                            *)
(*                                                                         *)
(* The contract inherits OpenZeppelin's Ownable and is deployed without    *)
(* constructor arguments (scripts/deploy of FrostIAM): the deployer is the *)
(* owner, and onlyOwner reverts with "Ownable: caller is not the owner".   *)
(* The approvers of a policy are an EnumerableSet.AddressSet: adding an    *)
(* address that is in the set changes nothing.  A reverted transaction     *)
(* changes no storage.                                                     *)

IamOwner == "deployer"

\* the accounts that approve
Signers == {"signer1", "signer2"}

\* the contract a policy gives access to (policy.resource)
Target == "target"

IamCallers == {IamOwner, Target} \cup Signers

FunctionSelectors == {"0x12345678"}

\* keccak256(chainid, this, _policyCounter++, block.timestamp): one id for
\* every value of the counter, none of them 0
PolicyIdOf(counter) == counter + 1

PolicyIds == {PolicyIdOf(c) : c \in 0..(MaxPolicies - 1)}

\* a Policy of storage that was never written
NoPolicy ==
    [policyId |-> 0, resource |-> "", functionSelector |-> "",
     threshold |-> 0, approvers |-> {}, approvals |-> {}, executed |-> FALSE]

NotOwner == "Ownable: caller is not the owner"

NoNestedCall == [fn |-> "none", error |-> NoRevert]

PolicyCall(fn, caller, policyId, error, nested) ==
    [fn |-> fn, caller |-> caller, policyId |-> policyId, error |-> error,
     nested |-> nested]

\* the deployment of the contract
FrostIAMDeployed ==
    /\ policies = [id \in PolicyIds |-> NoPolicy]
    /\ policyCounter = 0
    /\ lastPolicyCall = PolicyCall("constructor", IamOwner, 0, NoRevert,
                                   NoNestedCall)

\* a transaction that reverts with reason error, or runs its body
IamTransaction(call, body) ==
    /\ lastPolicyCall' = call
    /\ IF call.error /= NoRevert
       THEN UNCHANGED <<policies, policyCounter>>
       ELSE body
    /\ UNCHANGED <<frostVars, registryVars, accessResponse>>

\* for (i = 0; i < approvers.length; i++) policy.approvers.add(approvers[i])
AddAll(set, approvers) == set \cup {approvers[i] : i \in 1..Len(approvers)}

\* createPolicy(resource, functionSelector, approvers, threshold)
CreatePolicy(caller, resource, functionSelector, approvers, threshold) ==
    /\ policyCounter < MaxPolicies
    /\ LET policyId == PolicyIdOf(policyCounter)
           error == IF caller /= IamOwner THEN NotOwner
                    ELSE IF ~(Len(approvers) >= threshold)
                    THEN "FrostIAM: threshold too high"
                    ELSE IF ~(threshold > 0)
                    THEN "FrostIAM: threshold cannot be zero"
                    ELSE NoRevert
       IN  IamTransaction(
               PolicyCall("createPolicy", caller, policyId, error, NoNestedCall),
               /\ policyCounter' = policyCounter + 1
               /\ policies' = [policies EXCEPT ![policyId] =
                      [@ EXCEPT !.policyId = policyId,
                                !.resource = resource,
                                !.functionSelector = functionSelector,
                                !.threshold = threshold,
                                !.approvers = AddAll(@, approvers)]])

\* the requires of approvePolicy, for the policy as it is in storage
ApprovePolicyError(policy, sender) ==
    IF policy.policyId = 0 THEN "FrostIAM: policy does not exist"
    ELSE IF policy.executed THEN "FrostIAM: policy already executed"
    ELSE IF sender \in policy.approvals THEN "FrostIAM: already approved"
    ELSE IF sender \notin policy.approvers THEN "FrostIAM: not an approver"
    ELSE NoRevert

\* policy.approvals[msg.sender] = true
Approved(policy, sender) == [policy EXCEPT !.approvals = @ \cup {sender}]

\* approvePolicy(policyId, signature): the signature is only emitted
ApprovePolicy(caller, policyId) ==
    IamTransaction(
        PolicyCall("approvePolicy", caller, policyId,
                   ApprovePolicyError(policies[policyId], caller), NoNestedCall),
        /\ policies' = [policies EXCEPT ![policyId] = Approved(@, caller)]
        /\ UNCHANGED policyCounter)

\* the loop over policy.approvers that counts the approvals
ApprovalCount(policy) ==
    Cardinality({a \in policy.approvers : a \in policy.approvals})

\* the requires of executePolicy before the call of the resource
ExecutePolicyError(policy) ==
    IF policy.policyId = 0 THEN "FrostIAM: policy does not exist"
    ELSE IF policy.executed THEN "FrostIAM: policy already executed"
    ELSE IF ~(ApprovalCount(policy) >= policy.threshold)
    THEN "FrostIAM: insufficient approvals"
    ELSE NoRevert

\* what the resource does when it is called: nothing that concerns the
\* contract, or a call back into approvePolicy or executePolicy of the policy
Reentries == {"none", "approvePolicy", "executePolicy"}

\* the call made by the resource, on the policy as it is during the call
NestedCall(policy, reentry) ==
    [fn |-> reentry,
     error |-> IF reentry = "approvePolicy"
               THEN ApprovePolicyError(policy, policy.resource)
               ELSE IF reentry = "executePolicy" THEN ExecutePolicyError(policy)
               ELSE NoRevert]

\* the policy after the call of the resource
AfterCall(policy, reentry) ==
    IF NestedCall(policy, reentry).error /= NoRevert THEN policy
    ELSE IF reentry = "approvePolicy" THEN Approved(policy, policy.resource)
    ELSE IF reentry = "executePolicy" THEN [policy EXCEPT !.executed = TRUE]
    ELSE policy

\* executePolicy that does not mark the policy as executed
ExecutePolicyUnmarked(caller, policyId, reentry, success) ==
    LET policy == policies[policyId]
        before == ExecutePolicyError(policy)
        error == IF before /= NoRevert THEN before
                 ELSE IF ~success THEN "FrostIAM: execution failed"
                 ELSE NoRevert
    IN  IamTransaction(
            PolicyCall("executePolicy", caller, policyId, error,
                IF before = NoRevert THEN NestedCall(policy, "none")
                ELSE NoNestedCall),
            UNCHANGED <<policies, policyCounter>>)

\* executePolicy whose check lets one approval too few through
ExecutePolicyOneShort(caller, policyId, reentry, success) ==
    LET policy == policies[policyId]
        before == IF policy.policyId = 0 THEN "FrostIAM: policy does not exist"
                  ELSE IF policy.executed
                  THEN "FrostIAM: policy already executed"
                  ELSE IF ~(ApprovalCount(policy) + 1 >= policy.threshold)
                  THEN "FrostIAM: insufficient approvals"
                  ELSE NoRevert
        marked == [policy EXCEPT !.executed = TRUE]
        error == IF before /= NoRevert THEN before
                 ELSE IF ~success THEN "FrostIAM: execution failed"
                 ELSE NoRevert
    IN  IamTransaction(
            PolicyCall("executePolicy", caller, policyId, error,
                IF before = NoRevert THEN NestedCall(marked, reentry)
                ELSE NoNestedCall),
            /\ policies' = [policies EXCEPT ![policyId] =
                               AfterCall(marked, reentry)]
            /\ UNCHANGED policyCounter)

\* executePolicy(policyId, data): success is what policy.resource.call
\* returns, reentry what the resource does meanwhile
ExecutePolicy(caller, policyId, reentry, success) ==
    LET policy == policies[policyId]
        before == ExecutePolicyError(policy)
        marked == [policy EXCEPT !.executed = TRUE]
        error == IF before /= NoRevert THEN before
                 ELSE IF ~success THEN "FrostIAM: execution failed"
                 ELSE NoRevert
    IN  IamTransaction(
            PolicyCall("executePolicy", caller, policyId, error,
                IF before = NoRevert THEN NestedCall(marked, reentry)
                ELSE NoNestedCall),
            /\ policies' = [policies EXCEPT ![policyId] =
                               AfterCall(marked, reentry)]
            /\ UNCHANGED policyCounter)

-----------------------------------------------------------------------------
(* The API gateway: app.post('/access/request')                            *)

\* the body's signature field: absent (Undefined), a string, or the {r, s}
\* object that combineSignatureShares returns
StringSignature(chars) == [string |-> chars]

IsStringSignature(signature) == "string" \in DOMAIN signature

MinSignatureLength == 10

\* String.prototype.toUpperCase on the provider names sent
ToUpperCase(name) ==
    CASE name = "aws" -> "AWS"
      [] name = "Azure" -> "AZURE"
      [] OTHER -> name

\* AwsIamConnector.validateAccess and AzureIamConnector.validateAccess, on
\* the proof the handler has just built (timestamp: Date.now())
ValidateAccess(resource, principalId, blockchainProof) ==
    IF blockchainProof.signature = Undefined THEN FALSE
    ELSE /\ blockchainProof.resourceId /= ""
         /\ blockchainProof.principalId = principalId

Response(request, code, status, credentials) ==
    [request |-> request, code |-> code, status |-> status,
     credentials |-> credentials]

NoRequest ==
    [resourceId |-> "", principalId |-> "", cloudProvider |-> "",
     action |-> "", signature |-> Undefined, publicKeys |-> Undefined]

\* the server has started and answered nothing yet
GatewayStarted == accessResponse = Response(NoRequest, 0, "none", FALSE)

HandleAccessRequest(request) ==
    IF \/ request.resourceId = "" \/ request.principalId = ""
       \/ request.action = "" \/ request.signature = Undefined
       \/ request.publicKeys = Undefined
    THEN Response(request, 400, "Missing required parameters", FALSE)
    ELSE IF ~HasPermission(EncodeBytes32String(request.resourceId),
                           EncodeBytes32String(request.principalId))
    THEN Response(request, 403, "Permission denied on blockchain", FALSE)
    ELSE IF \/ ~IsStringSignature(request.signature)
            \/ Len(request.signature.string) < MinSignatureLength
    THEN Response(request, 400, "Invalid signature format", FALSE)
    ELSE LET blockchainProof ==
                 [resourceId |-> request.resourceId,
                  principalId |-> request.principalId,
                  action |-> request.action,
                  signature |-> request.signature]
             provider == ToUpperCase(request.cloudProvider)
         IN  \* cloudProvider.toUpperCase() of an absent field throws, and
             \* the catch answers 500
             IF request.cloudProvider = ""
             THEN Response(request, 500, "Internal server error", FALSE)
             ELSE IF provider \notin {"AWS", "AZURE"}
             THEN Response(request, 400, "Unsupported cloud provider", FALSE)
             ELSE IF ValidateAccess(request.resourceId, request.principalId,
                                    blockchainProof)
             THEN Response(request, 200, "access_granted", TRUE)
             ELSE Response(request, 403, "Access validation failed", FALSE)

AccessRequest(request) ==
    /\ accessResponse' = HandleAccessRequest(request)
    /\ UNCHANGED <<frostVars, registryVars, iamVars>>

-----------------------------------------------------------------------------
(* The caller's steps                                                      *)

InitKeyGen ==
    /\ keyShares = [n |-> 0, t |-> 0, out |-> NotCalled]
    /\ coefficients = <<>>
    /\ message = <<>>
    /\ commitments = <<>>
    /\ signatureShares = <<>>
    /\ nonceUses = <<>>
    /\ lastShare = [position |-> 0, message |-> <<>>, nonce |-> NotAString,
                    out |-> NotCalled]
    /\ combinedSignature = [shares |-> <<>>, out |-> NotCalled]
    /\ verification = [message |-> <<>>, signature |-> Undefined,
                       groupPublicKey |-> Undefined, out |-> NotCalled]
    /\ RegistryDeployed
    /\ FrostIAMDeployed
    /\ GatewayStarted

\* keyShares = frost.generateKeyShares(n, t)
KeyGen(n, t, draws) ==
    /\ ~Called(keyShares.out)
    /\ keyShares' = [n |-> n, t |-> t, out |-> GenerateKeyShares(n, t, draws)]
    /\ coefficients' = [j \in 1..Len(draws) |-> FromHex(draws[j])]
    /\ UNCHANGED <<message, commitments, signatureShares, nonceUses,
                   lastShare, combinedSignature, verification>>
    /\ UNCHANGED <<registryVars, iamVars, accessResponse>>

\* commitments.push(frost.generateCommitment(keyShares.shares[i - 1]))
\* for i = 1, 2, ..., as the loops of the scripts do
Commit(i, draw) ==
    /\ keyShares.out.ok
    /\ i = Len(commitments) + 1
    /\ i <= keyShares.n
    /\ ~Called(lastShare.out)
    /\ LET c == GenerateCommitment(draw)
       IN  /\ c.ok   \* a throw ends the caller's try block: nothing is pushed
           /\ commitments' = Append(commitments,
                  [index |-> i, nonce |-> c.value.nonce,
                   commitment |-> c.value.commitment])
    /\ nonceUses' = Append(nonceUses, 0)
    /\ UNCHANGED <<keyShares, coefficients, message, signatureShares,
                   lastShare, combinedSignature, verification>>
    /\ UNCHANGED <<registryVars, iamVars, accessResponse>>

\* commitments.map(c => c.commitment)
CommitmentList == [k \in 1..Len(commitments) |-> commitments[k].commitment]

\* frost.generateSignatureShare(m, keyShares.shares[i - 1],
\*     commitments[k].nonce, commitments.map(c => c.commitment), ...)
\* the first call of a participant is pushed to signatureShares, in the
\* order of the commitments; a later call takes the same nonce again, and
\* the session is followed up to the first such call
NonceReused == \E k \in 1..Len(nonceUses) : nonceUses[k] > 1

Sign(k, m) ==
    /\ keyShares.out.ok
    /\ k \in 1..Len(commitments)
    /\ ~NonceReused
    /\ ~Called(combinedSignature.out)
    /\ \/ nonceUses[k] = 0 /\ k = Len(signatureShares) + 1 /\ m = message
       \/ nonceUses[k] = 1
    /\ LET out == GenerateSignatureShare(m,
                      keyShares.out.value.shares[commitments[k].index],
                      commitments[k].nonce, CommitmentList)
       IN  /\ lastShare' = [position |-> k, message |-> m,
                           nonce |-> commitments[k].nonce, out |-> out]
           /\ signatureShares' =
                  IF nonceUses[k] = 0 /\ out.ok
                  THEN Append(signatureShares, out.value)
                  ELSE signatureShares
           /\ nonceUses' = [nonceUses EXCEPT ![k] = IF out.ok THEN @ + 1 ELSE @]
    /\ UNCHANGED <<keyShares, coefficients, message, commitments,
                   combinedSignature, verification>>
    /\ UNCHANGED <<registryVars, iamVars, accessResponse>>

\* frost.generateSignatureShare(m, keyShares.shares[i - 1], undefined,
\*     commitments.map(c => c.commitment), ...): a participant signs without
\* a nonce of its own, before any share of the session is kept
SignWithoutNonce(k, m) ==
    /\ keyShares.out.ok
    /\ k \in 1..Len(commitments)
    /\ ~Called(lastShare.out)
    /\ lastShare' = [position |-> k, message |-> m, nonce |-> NotAString,
                     out |-> GenerateSignatureShare(m,
                                 keyShares.out.value.shares[commitments[k].index],
                                 NotAString, CommitmentList)]
    /\ UNCHANGED <<keyShares, coefficients, message, commitments,
                   signatureShares, nonceUses, combinedSignature,
                   verification>>
    /\ UNCHANGED <<registryVars, iamVars, accessResponse>>

\* the lists a caller can pass: any of the signature shares, in any order,
\* also one share more than once, up to as many as there are
ShareLists ==
    UNION {[1..len -> {signatureShares[k] : k \in 1..Len(signatureShares)}] :
           len \in 0..Len(signatureShares)}

\* combinedSignature = frost.combineSignatureShares(message, shares,
\*     commitments.map(c => c.commitment), keyShares.publicShares, threshold)
Combine(shares, sDraw) ==
    /\ keyShares.out.ok
    /\ ~Called(combinedSignature.out)
    /\ commitments /= <<>>
    /\ Len(signatureShares) = Len(commitments)
    /\ ~NonceReused
    /\ ~Called(verification.out)
    /\ combinedSignature' =
           [shares |-> shares,
            out |-> CombineSignatureShares(message, shares, CommitmentList,
                        keyShares.out.value.threshold, sDraw)]
    /\ UNCHANGED <<keyShares, coefficients, message, commitments,
                   signatureShares, nonceUses, lastShare, verification>>
    /\ UNCHANGED <<registryVars, iamVars, accessResponse>>

\* isValid = frost.verifySignature(m, signature, groupPublicKey)
VerifyCall(m, signature, groupPublicKey) ==
    /\ verification' =
           [message |-> m, signature |-> signature,
            groupPublicKey |-> groupPublicKey,
            out |-> VerifySignature(m, signature, groupPublicKey)]
    /\ UNCHANGED <<keyShares, coefficients, message, commitments,
                   signatureShares, nonceUses, lastShare, combinedSignature>>
    /\ UNCHANGED <<registryVars, iamVars, accessResponse>>

\* the aggregated signature of the session is verified
Verify ==
    /\ keyShares.out.ok
    /\ combinedSignature.out.ok
    /\ ~Called(verification.out)
    /\ VerifyCall(message,
                  [r |-> combinedSignature.out.value.r,
                   s |-> combinedSignature.out.value.s],
                  keyShares.out.value.groupPublicKey)

\* the signer of commitment k calls generateSignatureShare again, with the
\* nonce and the commitments of the session, after verifySignature has
\* returned for it; the session is followed up to the first such call
SignAfterVerify(k) ==
    /\ keyShares.out.ok
    /\ Called(verification.out)
    /\ k \in 1..Len(commitments)
    /\ ~NonceReused
    /\ nonceUses[k] = 1
    /\ LET out == GenerateSignatureShare(message,
                      keyShares.out.value.shares[commitments[k].index],
                      commitments[k].nonce, CommitmentList)
       IN  /\ lastShare' = [position |-> k, message |-> message,
                           nonce |-> commitments[k].nonce, out |-> out]
           /\ nonceUses' = [nonceUses EXCEPT ![k] = IF out.ok THEN @ + 1 ELSE @]
    /\ UNCHANGED <<keyShares, coefficients, message, commitments,
                   signatureShares, combinedSignature, verification>>
    /\ UNCHANGED <<registryVars, iamVars, accessResponse>>

\* the aggregator calls combineSignatureShares again, with the shares and
\* the commitments of the session, after verifySignature has returned for it
CombineAfterVerify(sDraw) ==
    /\ keyShares.out.ok
    /\ Called(verification.out)
    /\ combinedSignature' =
           [shares |-> combinedSignature.shares,
            out |-> CombineSignatureShares(message, combinedSignature.shares,
                        CommitmentList, keyShares.out.value.threshold, sDraw)]
    /\ UNCHANGED <<keyShares, coefficients, message, commitments,
                   signatureShares, nonceUses, lastShare, verification>>
    /\ UNCHANGED <<registryVars, iamVars, accessResponse>>

\* simulateByzantineSignature: the signer of commitment k is Byzantine and
\* hands in { index, value: 'invalid_byzantine_signature_share_' + i } in
\* place of a share made by generateSignatureShare
ByzantineShare(k, value) ==
    /\ keyShares.out.ok
    /\ k \in 1..Len(commitments)
    /\ k = Len(signatureShares) + 1
    /\ nonceUses[k] = 0
    /\ ~Called(combinedSignature.out)
    /\ signatureShares' = Append(signatureShares,
           [index |-> commitments[k].index, value |-> value])
    /\ UNCHANGED <<keyShares, coefficients, message, commitments, nonceUses,
                   lastShare, combinedSignature, verification>>
    /\ UNCHANGED <<registryVars, iamVars, accessResponse>>

\* the group sizes tried: 0..MaxN and the first one over the limit
GroupSizes == (0..MaxN) \cup {MaxParticipants + 1}

Thresholds == 0..MaxT

\* the draws of a call with threshold t (none when the call throws before)
DrawsFor(n, t) ==
    IF t > n \/ t < 1 THEN {<<>>} ELSE [1..t -> RandomPrivateKeys]

NextKeyGen ==
    /\ ~Called(keyShares.out)
    /\ \E n \in GroupSizes, t \in Thresholds :
          \E draws \in DrawsFor(n, t) : KeyGen(n, t, draws)

SpecKeyGen == InitKeyGen /\ [][NextKeyGen]_vars

\* the messages of the signing sessions
Messages == {<<"a">>, <<"c", "4">>}

\* the random strings drawn inside a signing session
SessionDraws == {ToHex(v) : v \in {w \in RandomBytes : ~Redrawn(w) /\ w <= MaxDraw}}

Init ==
    /\ keyShares = [n |-> 0, t |-> 0, out |-> NotCalled]
    /\ coefficients = <<>>
    /\ message \in Messages
    /\ commitments = <<>>
    /\ signatureShares = <<>>
    /\ nonceUses = <<>>
    /\ lastShare = [position |-> 0, message |-> <<>>, nonce |-> NotAString,
                    out |-> NotCalled]
    /\ combinedSignature = [shares |-> <<>>, out |-> NotCalled]
    /\ verification = [message |-> <<>>, signature |-> Undefined,
                       groupPublicKey |-> Undefined, out |-> NotCalled]
    /\ RegistryDeployed
    /\ FrostIAMDeployed
    /\ GatewayStarted

Next ==
    \/ \E draws \in [1..SessionThreshold -> SessionDraws] :
           KeyGen(SessionParticipants, SessionThreshold, draws)
    \/ \E i \in 1..SessionParticipants, draw \in SessionDraws : Commit(i, draw)
    \/ \E k \in 1..SessionParticipants, m \in Messages : Sign(k, m)
    \/ \E k \in 1..SessionParticipants, m \in Messages :
           SignWithoutNonce(k, m)
    \/ \E shares \in ShareLists, sDraw \in SessionDraws : Combine(shares, sDraw)
    \/ Verify

Spec == Init /\ [][Next]_vars

\* verifySignature on its own: the arguments a caller can hand to it
VerifyMessages == Messages \cup {NotAString}

\* r and s as strings: a scalar up to one above the order, padded to the
\* fixed width or not
ScalarStrings ==
    UNION {{ToHex(v), PadStart(ToHex(v), PadLength)} : v \in 0..(Order + 1)}

VerifySignatures ==
    [r : ScalarStrings, s : ScalarStrings] \cup {Undefined}

\* the public keys generateKeyShares can return, or none
VerifyKeys == {PointToHex(BaseMul(k)) : k \in 1..(Order - 1)} \cup {Undefined}

NextVerify ==
    /\ ~Called(verification.out)
    /\ \E m \in VerifyMessages, signature \in VerifySignatures,
          groupPublicKey \in VerifyKeys :
           VerifyCall(m, signature, groupPublicKey)

SpecVerify == InitKeyGen /\ [][NextVerify]_vars

\* uint32 expiryTime
ExpiryTimes == 0..(Power(2, Uint32Bits) - 1)

\* the policies created within the first block: AWS without expiry, Azure
\* expired from the start (as the test creates one), AWS expiring later
BlockPolicies ==
    {[cloudProvider |-> 1, expiryTime |-> 0, requiresFrostSig |-> TRUE],
     [cloudProvider |-> 2, expiryTime |-> 1, requiresFrostSig |-> FALSE],
     [cloudProvider |-> 1, expiryTime |-> Power(2, Uint32Bits) - 1,
      requiresFrostSig |-> TRUE]}

\* the registry within one block: any account sends any transaction, and
\* the admin's roles stay as the constructor set them
NextRegistry ==
    \/ \E caller \in Accounts, role \in {ADMIN_ROLE, OPERATOR_ROLE} :
           GrantRole(caller, role, "operator")
    \/ \E caller \in Accounts, role \in {ADMIN_ROLE, OPERATOR_ROLE} :
           RevokeRole(caller, role, "operator")
    \/ \E caller \in Accounts, resourceId \in ResourceIds,
          policy \in BlockPolicies :
           CreateResourcePolicy(caller, resourceId, policy.cloudProvider,
               policy.expiryTime, policy.requiresFrostSig)
    \/ \E caller \in Accounts, resourceId \in ResourceIds,
          principalId \in PrincipalIds :
           GrantPermission(caller, resourceId, principalId)
    \/ \E caller \in Accounts, resourceId \in ResourceIds,
          principalId \in PrincipalIds :
           RevokePermission(caller, resourceId, principalId)
    \/ \E caller \in Accounts : Pause(caller)
    \/ \E caller \in Accounts : Unpause(caller)

SpecRegistry == InitKeyGen /\ [][NextRegistry]_vars

\* one policy and one principal over the blocks: the admin and the operator
\* of the test fixture send the transactions their roles are for
TimedResource == EncodeBytes32String("bucket")

TimedPrincipal == EncodeBytes32String("alice")

NextRegistryTime ==
    \/ GrantRole("admin", OPERATOR_ROLE, "operator")
    \/ \E cloudProvider \in CloudProviders, expiryTime \in ExpiryTimes :
           CreateResourcePolicy("admin", TimedResource, cloudProvider,
                                expiryTime, cloudProvider = 1)
    \/ GrantPermission("operator", TimedResource, TimedPrincipal)
    \/ RevokePermission("operator", TimedResource, TimedPrincipal)
    \/ Mine

SpecRegistryTime == InitKeyGen /\ [][NextRegistryTime]_vars

\* the registry behind the gateway: the fixture's operator role, then a
\* policy for each resource and alice's permissions, revoked in the end;
\* the ids are the names encoded as the gateway encodes them
RegistrySetup ==
    \/ /\ lastCall.fn = "constructor"
       /\ GrantRole("admin", OPERATOR_ROLE, "operator")
    \/ /\ lastCall.fn = "grantRole"
       /\ CreateResourcePolicy("admin", EncodeBytes32String("bucket"), 1, 0,
                               TRUE)
    \/ /\ lastCall.fn = "createResourcePolicy"
       /\ lastCall.resourceId = EncodeBytes32String("bucket")
       /\ CreateResourcePolicy("admin", EncodeBytes32String("vm"), 2, 0, TRUE)
    \/ /\ lastCall.fn = "createResourcePolicy"
       /\ lastCall.resourceId = EncodeBytes32String("vm")
       /\ GrantPermission("operator", EncodeBytes32String("bucket"),
                          EncodeBytes32String("alice"))
    \/ /\ lastCall.fn = "grantPermission"
       /\ lastCall.resourceId = EncodeBytes32String("bucket")
       /\ GrantPermission("operator", EncodeBytes32String("vm"),
                          EncodeBytes32String("alice"))
    \/ /\ lastCall.fn = "grantPermission"
       /\ lastCall.resourceId = EncodeBytes32String("vm")
       /\ RevokePermission("operator", EncodeBytes32String("bucket"),
                           EncodeBytes32String("alice"))

\* the bodies posted to /access/request
GatewaySignatures ==
    {Undefined, StringSignature(ToHex(3)),
     StringSignature(PadStart(ToHex(3), MinSignatureLength)),
     [r |-> ToHex(3), s |-> ToHex(3)]}

AccessRequests ==
    [resourceId : ResourceNames \cup {""}, principalId : PrincipalNames,
     cloudProvider : {"aws", "Azure", "gcp", ""}, action : {"read"},
     signature : GatewaySignatures,
     publicKeys : {Undefined, [keys |-> VerifyKeys \ {Undefined}]}]

NextGateway ==
    \/ RegistrySetup
    \/ \E request \in AccessRequests : AccessRequest(request)

SpecGateway == InitKeyGen /\ [][NextGateway]_vars

\* a signing session of the scripts (every signer signs the session's
\* message once, all the shares are combined) whose caller goes on after
\* the verification
NextSession ==
    \/ \E draws \in [1..SessionThreshold -> SessionDraws] :
           KeyGen(SessionParticipants, SessionThreshold, draws)
    \/ \E i \in 1..SessionParticipants, draw \in SessionDraws : Commit(i, draw)
    \/ \E k \in 1..Len(nonceUses) : nonceUses[k] = 0 /\ Sign(k, message)
    \/ \E sDraw \in SessionDraws : Combine(signatureShares, sDraw)
    \/ Verify
    \/ \E k \in 1..SessionParticipants : SignAfterVerify(k)
    \/ \E sDraw \in SessionDraws : CombineAfterVerify(sDraw)

SpecSession == Init /\ [][NextSession]_vars

\* the values a Byzantine signer hands in: a string that is not hexadecimal
\* and a hexadecimal number above the order
ByzantineValues == {<<"i", "n", "v">>, <<"f", "f">>}

\* simulateByzantineSignature: all commitments are made first, then every
\* signer hands in a share, honest or not, and all the shares are combined
NextByzantine ==
    \/ \E draws \in [1..SessionThreshold -> SessionDraws] :
           KeyGen(SessionParticipants, SessionThreshold, draws)
    \/ \E i \in 1..SessionParticipants, draw \in SessionDraws :
           signatureShares = <<>> /\ Commit(i, draw)
    \/ \E k \in 1..Len(nonceUses) : nonceUses[k] = 0 /\ Sign(k, message)
    \/ \E k \in 1..SessionParticipants, value \in ByzantineValues :
           ByzantineShare(k, value)
    \/ \E sDraw \in SessionDraws : Combine(signatureShares, sDraw)

SpecByzantine == Init /\ [][NextByzantine]_vars

\* the approvers arrays given to createPolicy: the signers in any order,
\* also one signer more than once
ApproverLists == UNION {[1..len -> Signers] : len \in 0..MaxApprovers}

\* the whole interface of FrostIAM, called by anyone
NextFrostIAM ==
    \/ \E caller \in {IamOwner, "signer1"}, selector \in FunctionSelectors,
          approvers \in ApproverLists, threshold \in 0..(MaxApprovers + 1) :
           CreatePolicy(caller, Target, selector, approvers, threshold)
    \/ \E caller \in IamCallers, policyId \in PolicyIds :
           ApprovePolicy(caller, policyId)
    \/ \E caller \in IamCallers, policyId \in PolicyIds,
          reentry \in Reentries, success \in BOOLEAN :
           ExecutePolicy(caller, policyId, reentry, success)

SpecFrostIAM == InitKeyGen /\ [][NextFrostIAM]_vars

-----------------------------------------------------------------------------
(* Key generation: C1, C2, C3                                              *)

ValidParameters(n, t) == 1 <= t /\ t <= n /\ n <= MaxParticipants

KeyGenReturned == keyShares.out.ok

DistinctIndexLists(n, t) ==
    {s \in [1..t -> 1..n] : \A i, j \in 1..t : i /= j => s[i] /= s[j]}

\* Lagrange interpolation at 0 over the shares at `indices`, reduced mod n
Interpolate(shares, indices) ==
    LET lagrange == CalculateLagrangeCoefficients(indices)
        Sum[k \in 0..Len(indices)] ==
            IF k = 0 THEN 0
            ELSE Sum[k - 1]
                 + FromHex(shares[indices[k]].value) * FromHex(lagrange[k])
    IN  BnUmod(Sum[Len(indices)], Order)

\* C2: from every choice of exactly t of the n returned shares, Lagrange
\* interpolation at 0 gives the constant term a0 of the polynomial, and a0
\* times the base point is the returned group public key.
C2_RoundTrip ==
    (KeyGenReturned /\ ValidParameters(keyShares.n, keyShares.t)) =>
        \A indices \in DistinctIndexLists(keyShares.n, keyShares.t) :
            LET a0 == Interpolate(keyShares.out.value.shares, indices)
            IN  /\ a0 = coefficients[1]
                /\ PointToHex(BaseMul(a0)) = keyShares.out.value.groupPublicKey

C2_Witness ==
    /\ KeyGenReturned
    /\ keyShares.t = MaxT
    /\ keyShares.n = MaxN
    /\ \A j \in 1..MaxT : coefficients[j] > 1
    /\ \E indices \in DistinctIndexLists(MaxN, MaxT) :
           Interpolate(keyShares.out.value.shares, indices) = coefficients[1]

\* C3: generateKeyShares(n, t) throws, and returns no key share set, when
\* t < 1, t > n, n < 1 or n > 50.
C3_InvalidParametersRejected ==
    (Called(keyShares.out) /\ ~ValidParameters(keyShares.n, keyShares.t))
        => ~keyShares.out.ok

-----------------------------------------------------------------------------
(* Aggregation and verification: C4 .. C10                                 *)

Threshold == keyShares.out.value.threshold

CombineCalled == Called(combinedSignature.out)

CombineReturned == combinedSignature.out.ok

DistinctIndices(shares) ==
    \A i, j \in 1..Len(shares) : i /= j => shares[i].index /= shares[j].index

\* at least threshold shares, of distinct participants
Qualified(shares) == Len(shares) >= Threshold /\ DistinctIndices(shares)

Reorderings(shares) ==
    {[i \in 1..Len(shares) |-> shares[p[i]]] :
        p \in {q \in [1..Len(shares) -> 1..Len(shares)] :
                  \A i, j \in 1..Len(shares) : i /= j => q[i] /= q[j]}}

\* C4: combineSignatureShares with fewer shares than the threshold throws
\* the not-enough-shares error naming the threshold and the number given,
\* and returns no signature.
C4_TooFewSharesRejected ==
    (CombineCalled /\ Len(combinedSignature.shares) < Threshold) =>
        /\ ~combinedSignature.out.ok
        /\ combinedSignature.out.error =
               [name |-> "Not enough signature shares",
                need |-> Threshold, got |-> Len(combinedSignature.shares)]

C4_Witness ==
    /\ CombineCalled
    /\ Len(combinedSignature.shares) = Threshold - 1
    /\ Len(signatureShares) >= Threshold
    /\ combinedSignature.out.error.got = Threshold - 1

\* C5: for fixed shares, message, commitments and threshold, every call of
\* combineSignatureShares with the shares in another order returns an
\* aggregated signature equal to the one returned.
C5_OrderIndependent ==
    CombineReturned =>
        \A shares \in Reorderings(combinedSignature.shares),
           sDraw \in SessionDraws :
            CombineSignatureShares(message, shares, CommitmentList,
                                   Threshold, sDraw).value
                = combinedSignature.out.value

VerifyCalled == Called(verification.out)

\* C6: the signature made by commitment, signing and aggregation with at
\* least threshold distinct participants is accepted by verifySignature
\* under the group public key.
C6_EndToEndValid ==
    (VerifyCalled /\ CombineReturned /\ Qualified(combinedSignature.shares)
        /\ verification.message = message
        /\ verification.signature.r = combinedSignature.out.value.r
        /\ verification.signature.s = combinedSignature.out.value.s) =>
        verification.out.value = TRUE

\* an argument list verifySignature must answer false to
Malformed(m, signature, groupPublicKey) ==
    \/ m = NotAString
    \/ signature = Undefined
    \/ groupPublicKey = Undefined
    \/ /\ signature /= Undefined
       /\ \/ Len(signature.r) /= PadLength
          \/ Len(signature.s) /= PadLength
          \/ FromHex(signature.r) >= Order
          \/ FromHex(signature.s) >= Order

\* C7: verifySignature never throws, it returns a boolean, and the boolean
\* is false for every malformed input.
C7_VerifyFailsClosed ==
    VerifyCalled =>
        /\ verification.out.ok
        /\ verification.out.value \in BOOLEAN
        /\ Malformed(verification.message, verification.signature,
                     verification.groupPublicKey)
              => verification.out.value = FALSE

\* C8: no nonce is accepted by generateSignatureShare more than once.
C8_NonceSingleUse ==
    \A k \in 1..Len(nonceUses) : nonceUses[k] <= 1

\* C18: generateSignatureShare called without a nonce (undefined), or with
\* a nonce that a signature share was made from before, fails with a
\* missing-state error and returns no signature share.
C18_MissingNonceRejected ==
    /\ Called(lastShare.out)
    /\ \/ lastShare.nonce = NotAString
       \/ nonceUses[lastShare.position] > 1
    => /\ ~lastShare.out.ok
       /\ lastShare.out.error.name = "MissingState"

\* C9: combineSignatureShares given two shares of the same index throws the
\* not-enough-shares error and returns no signature.
C9_DuplicateIndexRejected ==
    (CombineCalled /\ ~DistinctIndices(combinedSignature.shares)) =>
        /\ ~combinedSignature.out.ok
        /\ combinedSignature.out.error.name = "Not enough signature shares"

\* the scalar that combineSignatureShares computes from `shares`
CombinedScalar(shares) ==
    CombineLoop(shares,
        CalculateLagrangeCoefficients([i \in 1..Len(shares) |-> shares[i].index]),
        Len(shares))

NoncePart(shares) ==
    LET lagrange == CalculateLagrangeCoefficients(
                        [i \in 1..Len(shares) |-> shares[i].index])
        Sum[k \in 0..Len(shares)] ==
            IF k = 0 THEN 0
            ELSE Sum[k - 1] + FromHex(lagrange[k])
                                * FromHex(commitments[shares[k].index].nonce)
    IN  Sum[Len(shares)]

FixedWidthHex(str) ==
    Len(str) = PadLength /\ \A i \in 1..Len(str) : IsHexDigit(str[i])

\* C20: for every list of k >= threshold shares of distinct indices, k odd
\* or even, the r that combineSignatureShares returns is exactly 64
\* hexadecimal digits (no sign character) of a scalar in 0 .. order - 1,
\* and s is exactly 64 hexadecimal digits.
C20_FixedWidthScalars ==
    CombineReturned /\ Qualified(combinedSignature.shares) =>
        /\ FixedWidthHex(combinedSignature.out.value.r)
        /\ FromHex(combinedSignature.out.value.r) \in 0..(Order - 1)
        /\ FixedWidthHex(combinedSignature.out.value.s)

\* the part of share i that the coefficients a_1 .. a_(t-1) contribute
HigherTerms(i) ==
    BnUmod(PolyEval([coefficients EXCEPT ![1] = 0], i, Len(coefficients)),
           Order)

\* C19 as stated: for every valid (n, t), t = 1 included, no share value of
\* the returned KeyShareSet is the group secret a0.
C19_SecretNeverReturned ==
    KeyGenReturned =>
        \A i \in 1..keyShares.n :
            FromHex(keyShares.out.value.shares[i].value) /= coefficients[1]

\* C19 amended: the KeyShareSet has no field for a0; the value of share i
\* is a0 exactly when the terms of a_1 .. a_(t-1) vanish at i modulo the
\* order, which is at every i when t = 1.
C19_SecretReturnedWhenTermsVanish ==
    KeyGenReturned =>
        /\ DOMAIN keyShares.out.value =
               {"shares", "publicShares", "groupPublicKey", "threshold",
                "total"}
        /\ \A i \in 1..keyShares.n :
               (FromHex(keyShares.out.value.shares[i].value) = coefficients[1])
                   <=> HigherTerms(i) = 0
        /\ keyShares.t = 1 =>
               \A i \in 1..keyShares.n :
                   FromHex(keyShares.out.value.shares[i].value)
                       = coefficients[1]

\* a set for threshold 1 and the largest group: every share is a0
C19_Witness ==
    /\ KeyGenReturned
    /\ keyShares.t = 1
    /\ keyShares.n = MaxN
    /\ \A i \in 1..MaxN :
           FromHex(keyShares.out.value.shares[i].value) = coefficients[1]

-----------------------------------------------------------------------------
(* The registry: C11 .. C16                                                *)

\* a step that is a transaction to the registry; lastCall' describes it
TransactionStep ==
    blockTimestamp' = blockTimestamp /\ accessResponse' = accessResponse

Succeeded(fn) ==
    TransactionStep /\ lastCall'.fn = fn /\ lastCall'.error = NoRevert

Existing(resourceId) == resourcePolicies[resourceId].created > 0

Expired(resourceId) ==
    /\ resourcePolicies[resourceId].expiryTime > 0
    /\ blockTimestamp >= resourcePolicies[resourceId].expiryTime

\* C11: for an existing, unexpired policy hasPermission(resource, principal)
\* is false before any grant, true after a successful grantPermission of
\* the pair, false after a revokePermission of the pair, and no other
\* transaction (a grant or revoke of another pair among them) changes it.
C11_PermissionLifecycle ==
    [][\A resourceId \in ResourceIds, principalId \in PrincipalIds :
        LET ofPair == /\ lastCall'.resourceId = resourceId
                      /\ lastCall'.principalId = principalId
            granted == Succeeded("grantPermission") /\ ofPair
            revoked == Succeeded("revokePermission") /\ ofPair
        IN  /\ granted => /\ Existing(resourceId) /\ ~Expired(resourceId)
                          /\ HasPermission(resourceId, principalId)'
            /\ revoked => ~HasPermission(resourceId, principalId)'
            /\ ~granted /\ ~revoked =>
                   HasPermission(resourceId, principalId)'
                       = HasPermission(resourceId, principalId)
            /\ HasPermission(resourceId, principalId) =>
                   Existing(resourceId) /\ ~Expired(resourceId)
      ]_vars

\* a pair has just been revoked while the other pairs of its resource and
\* of its principal stay granted
C11_Witness ==
    /\ lastCall.fn = "revokePermission"
    /\ lastCall.error = NoRevert
    /\ lastCall.resourceId = EncodeBytes32String("bucket")
    /\ lastCall.principalId = EncodeBytes32String("alice")
    /\ ~HasPermission(EncodeBytes32String("bucket"), EncodeBytes32String("alice"))
    /\ HasPermission(EncodeBytes32String("bucket"), EncodeBytes32String("bob"))
    /\ HasPermission(EncodeBytes32String("vm"), EncodeBytes32String("alice"))

\* C12: for a policy created with expiryTime > 0, hasPermission is false at
\* every block time >= expiryTime, and no operation changes the expiryTime
\* of a resource once a policy was created for it, so that it stays false.
C12_ExpiredStaysExpired ==
    [][\A resourceId \in ResourceIds, principalId \in PrincipalIds :
        resourcePolicies[resourceId].expiryTime > 0 =>
            /\ Expired(resourceId) => ~HasPermission(resourceId, principalId)
            /\ resourcePolicies'[resourceId].expiryTime
                   = resourcePolicies[resourceId].expiryTime
      ]_vars

\* C13: a grantPermission for a resource without a policy, or with a policy
\* whose expiryTime > 0 is reached, reverts and leaves permissions and the
\* policy (its updated timestamp too) as they were; sent by an operator
\* while not paused, the reasons are "Policy doesn't exist" and
\* "Policy expired".
C13_GrantRevertsWithoutLivePolicy ==
    [][\A resourceId \in ResourceIds :
        /\ TransactionStep
        /\ lastCall'.fn = "grantPermission"
        /\ lastCall'.resourceId = resourceId
        /\ ~Existing(resourceId) \/ Expired(resourceId)
        => /\ lastCall'.error /= NoRevert
           /\ permissions' = permissions
           /\ resourcePolicies' = resourcePolicies
           /\ HasRole(OPERATOR_ROLE, lastCall'.caller) /\ ~paused =>
                  lastCall'.error = IF ~Existing(resourceId)
                                    THEN "Policy doesn't exist"
                                    ELSE "Policy expired"
      ]_vars

\* a grant on an expired policy has reverted, in a block later than the
\* policy's last update
C13_Witness ==
    /\ lastCall.fn = "grantPermission"
    /\ lastCall.error = "Policy expired"
    /\ Existing(lastCall.resourceId)
    /\ resourcePolicies[lastCall.resourceId].updated /= Uint32(blockTimestamp)

\* C14: createResourcePolicy for a resource that a policy was created for
\* before reverts with "Policy already exists" and leaves the stored policy
\* unchanged; a policy, once created, is never replaced.
C14_PolicyNeverReplaced ==
    [][\A resourceId \in ResourceIds :
        resourcePolicies[resourceId] /= ZeroPolicy =>
            /\ resourcePolicies'[resourceId].created
                   = resourcePolicies[resourceId].created
            /\ resourcePolicies'[resourceId].expiryTime
                   = resourcePolicies[resourceId].expiryTime
            /\ resourcePolicies'[resourceId].cloudProvider
                   = resourcePolicies[resourceId].cloudProvider
            /\ resourcePolicies'[resourceId].requiresFrostSig
                   = resourcePolicies[resourceId].requiresFrostSig
            /\ /\ TransactionStep
               /\ lastCall'.fn = "createResourcePolicy"
               /\ lastCall'.resourceId = resourceId
               /\ HasRole(ADMIN_ROLE, lastCall'.caller)
               => lastCall'.error = "Policy already exists"
      ]_vars

\* C15: while paused every grantPermission reverts and grants nothing, with
\* "Pausable: paused" when an operator sends it; while not paused (at the
\* start and after unpause) an operator's grantPermission on an existing
\* unexpired policy succeeds and hasPermission of the pair is true.
C15_PausedGrantsNothing ==
    [][\A resourceId \in ResourceIds, principalId \in PrincipalIds :
        /\ TransactionStep
        /\ lastCall'.fn = "grantPermission"
        /\ lastCall'.resourceId = resourceId
        /\ lastCall'.principalId = principalId
        => /\ paused =>
                 /\ lastCall'.error /= NoRevert
                 /\ permissions' = permissions
                 /\ HasRole(OPERATOR_ROLE, lastCall'.caller) =>
                        lastCall'.error = "Pausable: paused"
           /\ /\ ~paused
              /\ HasRole(OPERATOR_ROLE, lastCall'.caller)
              /\ Existing(resourceId)
              /\ ~Expired(resourceId)
              => /\ lastCall'.error = NoRevert
                 /\ HasPermission(resourceId, principalId)'
      ]_vars

\* an operator's grant has reverted on the pause, for a policy that exists
\* and has not expired
C15_Witness ==
    /\ paused
    /\ lastCall.fn = "grantPermission"
    /\ lastCall.error = "Pausable: paused"
    /\ Existing(lastCall.resourceId)
    /\ ~Expired(lastCall.resourceId)
    /\ ~HasPermission(lastCall.resourceId, lastCall.principalId)

AdminFunctions == {"createResourcePolicy", "pause", "unpause"}

OperatorFunctions == {"grantPermission", "revokePermission"}

\* C16: createResourcePolicy, pause and unpause succeed only for a caller
\* holding ADMIN_ROLE, grantPermission and revokePermission only for one
\* holding OPERATOR_ROLE; a policy, a permission or the pause flag changes
\* only in such a call, whatever other role the caller holds.
C16_RoleGated ==
    [][/\ \A fn \in AdminFunctions :
              Succeeded(fn) => HasRole(ADMIN_ROLE, lastCall'.caller)
       /\ \A fn \in OperatorFunctions :
              Succeeded(fn) => HasRole(OPERATOR_ROLE, lastCall'.caller)
       /\ resourcePolicies' /= resourcePolicies =>
              \/ Succeeded("createResourcePolicy")
              \/ \E fn \in OperatorFunctions : Succeeded(fn)
       /\ permissions' /= permissions =>
              \E fn \in OperatorFunctions : Succeeded(fn)
       /\ paused' /= paused => Succeeded("pause") \/ Succeeded("unpause")
      ]_vars

\* an account holding OPERATOR_ROLE and not ADMIN_ROLE was refused a policy
C16_Witness ==
    /\ lastCall.fn = "createResourcePolicy"
    /\ lastCall.error = MissingRole
    /\ HasRole(OPERATOR_ROLE, lastCall.caller)
    /\ ~HasRole(ADMIN_ROLE, lastCall.caller)
    /\ resourcePolicies[lastCall.resourceId] = ZeroPolicy

-----------------------------------------------------------------------------
(* The gateway: C17                                                        *)

\* what verifySignature reads of the signature a request supplied: r and s
\* of an object, and no such property of a string
SuppliedSignature(request) ==
    IF IsStringSignature(request.signature)
    THEN [r |-> NotAString, s |-> NotAString]
    ELSE request.signature

\* C17: the gateway answers access_granted only to a request whose
\* signature verifySignature accepts under a public key of the request.
C17_VerifiedBeforeGranted ==
    accessResponse.status = "access_granted" =>
        \E m \in Messages, key \in accessResponse.request.publicKeys.keys :
            VerifySignature(m, SuppliedSignature(accessResponse.request),
                            key).value

-----------------------------------------------------------------------------
(* Aggregation, draws and binding: C21 .. C23                              *)

\* C21: the s of the aggregated signature is a function of the arguments of
\* combineSignatureShares: every call with the arguments of the call made
\* returns the same s.
C21_DeterministicS ==
    CombineReturned =>
        \A sDraw \in SessionDraws :
            CombineSignatureShares(message, combinedSignature.shares,
                                   CommitmentList, Threshold, sDraw).value.s
                = combinedSignature.out.value.s

\* C22: every coefficient drawn by generateKeyShares and every nonce drawn
\* by generateCommitment is in 1 .. order - 1.
C22_DrawsInRange ==
    /\ \A j \in 1..Len(coefficients) : coefficients[j] \in 1..(Order - 1)
    /\ \A k \in 1..Len(commitments) :
           FromHex(commitments[k].nonce) \in 1..(Order - 1)

\* the commitment lists a caller can make of the session's commitments: any
\* of them, in any order, up to as many as there are
CommitmentLists ==
    UNION {[1..len -> {commitments[k].commitment : k \in 1..Len(commitments)}] :
           len \in 0..Len(commitments)}

\* C23: for the shares and message of the call made, combineSignatureShares
\* with a commitment list other than the one the signers passed to
\* generateSignatureShare throws or returns another r.
C23_BoundToCommitments ==
    CombineReturned =>
        \A other \in CommitmentLists, sDraw \in SessionDraws :
            other /= CommitmentList =>
                LET again == CombineSignatureShares(message,
                                 combinedSignature.shares, other, Threshold,
                                 sDraw)
                IN  ~again.ok \/ again.value.r /= combinedSignature.out.value.r

-----------------------------------------------------------------------------
(* The order of a session: C24                                             *)

\* C24: once verifySignature has returned for the session, every further
\* generateSignatureShare and combineSignatureShares call with the
\* session's nonces and commitments is rejected: no step after it records
\* a call of either that returned a value.
C24_NothingAfterVerify ==
    [][Called(verification.out) =>
          /\ lastShare' /= lastShare => ~lastShare'.out.ok
          /\ combinedSignature' /= combinedSignature
                 => ~combinedSignature'.out.ok]_vars

-----------------------------------------------------------------------------
(* Signature shares: C25, C26                                              *)

\* the binding factor of message m and the session's commitments, in their
\* order, as a number
Challenge(m) == FromHex(CalculateBindingFactor(HashMessage(m), CommitmentList))

\* (nonce + c * share.value) mod order for the signer of commitment k
ShareScalar(m, k, nonce) ==
    (FromHex(nonce) + Challenge(m)
        * FromHex(keyShares.out.value.shares[commitments[k].index].value))
    % Order

\* a string of hexadecimal digits of a scalar in 0 .. order - 1
IsScalar(str) ==
    /\ \A i \in 1..Len(str) : IsHexDigit(str[i])
    /\ FromHex(str) \in 0..(Order - 1)

\* C25: generateSignatureShare returns the index of the private share and
\* the value (nonce + c * share.value) mod order, a scalar in 0 .. order - 1,
\* c the binding factor of the message and the commitments in their order;
\* all the shares of a session are made with the one c.
C25_ShareFormula ==
    /\ (Called(lastShare.out) /\ lastShare.nonce /= NotAString) =>
          /\ lastShare.out.ok
          /\ lastShare.out.value.index = commitments[lastShare.position].index
          /\ IsScalar(lastShare.out.value.value)
          /\ FromHex(lastShare.out.value.value)
                = ShareScalar(lastShare.message, lastShare.position,
                              lastShare.nonce)
    /\ \A k \in 1..Len(signatureShares) :
          /\ signatureShares[k].index = commitments[k].index
          /\ IsScalar(signatureShares[k].value)
          /\ FromHex(signatureShares[k].value)
                = ShareScalar(message, k, commitments[k].nonce)

\* two signers have signed, and the binding factor is part of the last share
C25_Witness ==
    /\ Len(signatureShares) >= 2
    /\ Called(lastShare.out)
    /\ lastShare.nonce /= NotAString
    /\ Challenge(lastShare.message) % Order /= 0
    /\ FromHex(lastShare.out.value.value) /= FromHex(lastShare.nonce)

\* C26: combineSignatureShares given at least one share whose value is not
\* a valid scalar fails and returns no signature, also when the number of
\* shares is at least the threshold.
C26_MalformedShareRejected ==
    (CombineCalled /\ \E i \in 1..Len(combinedSignature.shares) :
                         ~IsScalar(combinedSignature.shares[i].value))
        => ~combinedSignature.out.ok

-----------------------------------------------------------------------------
(* FrostIAM: C27 .. C29                                                    *)

\* the step is a transaction fn on policy id that did not revert
PolicySucceeded(fn, id) ==
    /\ lastPolicyCall'.fn = fn
    /\ lastPolicyCall'.policyId = id
    /\ lastPolicyCall'.error = NoRevert

\* the listed approvers of the policy that have approved
ApprovedApprovers(policy) == policy.approvers \cap policy.approvals

\* C27: a policy becomes executed only by an executePolicy made when the
\* number of its listed approvers that had approved was at least its
\* threshold; approvePolicy succeeds only for an address of the approver
\* set that has not approved before, and adds that one approval, so every
\* approver counts at most once.
C27_ThresholdGate ==
    [][\A id \in PolicyIds :
        /\ (policies'[id].executed /\ ~policies[id].executed) =>
              /\ PolicySucceeded("executePolicy", id)
              /\ Cardinality(ApprovedApprovers(policies[id]))
                    >= policies[id].threshold
              /\ policies[id].threshold >= 1
        /\ PolicySucceeded("approvePolicy", id) =>
              /\ lastPolicyCall'.caller \in policies[id].approvers
              /\ lastPolicyCall'.caller \notin policies[id].approvals
              /\ policies'[id].approvals
                    = policies[id].approvals \cup {lastPolicyCall'.caller}
        /\ policies'[id].approvals /= policies[id].approvals =>
              PolicySucceeded("approvePolicy", id)
        /\ policies'[id].approvals \subseteq policies'[id].approvers
      ]_vars

\* a policy of two approvers and threshold 2 has just been executed
C27_Witness ==
    /\ lastPolicyCall.fn = "executePolicy"
    /\ lastPolicyCall.error = NoRevert
    /\ policies[lastPolicyCall.policyId].executed
    /\ policies[lastPolicyCall.policyId].threshold = 2
    /\ policies[lastPolicyCall.policyId].approvals = Signers

AlreadyExecuted == "FrostIAM: policy already executed"

\* C28: an executePolicy that succeeds marks the policy executed; from then
\* on executed stays true, the approvals stay as they are and every
\* executePolicy and approvePolicy on the policy reverts, a call made by
\* the resource during the execution included; an executePolicy whose
\* target call fails reverts and leaves the policy as it was.
C28_ExecutedOnce ==
    [][\A id \in PolicyIds :
        /\ PolicySucceeded("executePolicy", id) =>
              ~policies[id].executed /\ policies'[id].executed
        /\ policies[id].executed =>
              /\ policies'[id] = policies[id]
              /\ ExecutePolicyError(policies[id]) = AlreadyExecuted
              /\ \A caller \in IamCallers :
                     ApprovePolicyError(policies[id], caller) = AlreadyExecuted
              /\ (lastPolicyCall'.policyId = id
                     /\ lastPolicyCall'.fn \in {"executePolicy", "approvePolicy"})
                    => lastPolicyCall'.error = AlreadyExecuted
        /\ (lastPolicyCall'.policyId = id
               /\ lastPolicyCall'.fn = "executePolicy"
               /\ lastPolicyCall'.nested.fn /= "none") =>
              lastPolicyCall'.nested.error = AlreadyExecuted
        /\ (lastPolicyCall'.policyId = id
               /\ lastPolicyCall'.error = "FrostIAM: execution failed") =>
              policies' = policies
      ]_vars

\* an executePolicy on a policy that was executed before has just reverted
C28_Witness ==
    /\ lastPolicyCall.fn = "executePolicy"
    /\ lastPolicyCall.error = AlreadyExecuted
    /\ policies[lastPolicyCall.policyId].executed
    /\ policies[lastPolicyCall.policyId].approvals /= {}

\* C29: every policy that createPolicy has stored has a threshold of at
\* least 1 and of at most the number of distinct addresses of its approver
\* set, so that the approvals of all its approvers pass the check of
\* executePolicy.
C29_PolicySatisfiable ==
    \A id \in PolicyIds :
        policies[id].policyId /= 0 =>
            /\ policies[id].threshold >= 1
            /\ policies[id].threshold <= Cardinality(policies[id].approvers)
            /\ ExecutePolicyError(
                   [policies[id] EXCEPT !.approvals = policies[id].approvers,
                                        !.executed = FALSE]) = NoRevert

-----------------------------------------------------------------------------
(* The registry while paused: C30                                          *)

\* C30: while the contract is paused no entry of the permissions mapping
\* changes.
C30_PausedFreezesPermissions ==
    [][paused => permissions' = permissions]_vars

====
